---- MODULE Spec2Model ----
(***************************************************************************)
(* Model of the streaming-with-timeout-fallback engine of the              *)
(* IntelliShieldX AI service:                                              *)
(*   - ModelManager (llm/model_manager.py): registry and candidate order   *)
(*   - ChatHandler.stream_response / _stream_with_timeout / stream_worker  *)
(*     (llm/chat_handler.py): orchestrator, liveness monitor, bridge worker*)
(*   - chat_stream and analyze_security (app.py): the HTTP-side callers    *)
(*                                                                         *)
(* Time is counted in ticks of one channel poll (0.5 s, result_queue.get). *)
(* The monitor's own statements take no time: time passes only while the   *)
(* monitor is blocked in the poll or suspended in a yield.                 *)
(***************************************************************************)
EXTENDS Integers, Sequences, FiniteSets, TLC

\* ------------------------------------------------------------------------
\* Bounds of the model
\* ------------------------------------------------------------------------
\* chunks the provider streams of one request may deliver altogether before
\* each must end, raise or stall
MaxChunks == 2
\* the response deadline (seconds) the request of the model carries
RequestTimeout == 1
\* files of one analyze_security request
MaxFiles == 2
\* vulnerabilities one model response reports
MaxVulns == 2

\* ------------------------------------------------------------------------
\* Program constants
\* ------------------------------------------------------------------------
\* result_queue.get(timeout=0.5): two polls per second
TicksPerSecond == 2
\* time_since_last_chunk > 10 (seconds)
QuietSeconds == 10
QuietTicks == QuietSeconds * TicksPerSecond
\* data.get("timeout", 30)
DefaultTimeout == 30

Min(a, b) == IF a < b THEN a ELSE b

\* ------------------------------------------------------------------------
\* ModelManager: the registry (self.models), in insertion order
\* ------------------------------------------------------------------------
ModelOrder ==
  << "gpt-3.5-turbo", "gpt-4-turbo", "gpt-4o",
     "claude-3-haiku", "claude-3-sonnet", "claude-3-opus",
     "mixtral-8x7b", "llama-3.3-70b", "gemini-pro" >>

ModelIds == { ModelOrder[i] : i \in DOMAIN ModelOrder }

models ==
  [ id \in ModelIds |->
      CASE id = "gpt-3.5-turbo"   -> [provider |-> "OpenAI",    category |-> "basic",    client |-> "openai"]
        [] id = "gpt-4-turbo"     -> [provider |-> "OpenAI",    category |-> "standard", client |-> "openai"]
        [] id = "gpt-4o"          -> [provider |-> "OpenAI",    category |-> "advanced", client |-> "openai"]
        [] id = "claude-3-haiku"  -> [provider |-> "Anthropic", category |-> "basic",    client |-> "anthropic"]
        [] id = "claude-3-sonnet" -> [provider |-> "Anthropic", category |-> "standard", client |-> "anthropic"]
        [] id = "claude-3-opus"   -> [provider |-> "Anthropic", category |-> "advanced", client |-> "anthropic"]
        [] id = "mixtral-8x7b"    -> [provider |-> "Groq",      category |-> "basic",    client |-> "groq"]
        [] id = "llama-3.3-70b"   -> [provider |-> "Groq",      category |-> "standard", client |-> "groq"]
        [] id = "gemini-pro"      -> [provider |-> "Google",    category |-> "standard", client |-> "google"] ]

\* self.plan_access.get(user_plan, ["basic"])
plan_access(user_plan) ==
  CASE user_plan = "free"       -> {"basic"}
    [] user_plan = "standard"   -> {"basic", "standard"}
    [] user_plan = "pro"        -> {"basic", "standard", "advanced"}
    [] user_plan = "enterprise" -> {"basic", "standard", "advanced", "enterprise"}
    [] OTHER                    -> {"basic"}

free_tier_unauthenticated_providers == {"Groq"}
free_tier_authenticated_providers == {"Groq", "Google"}

\* the provider clients built by ModelManager.__init__: the OpenAI and
\* Anthropic clients are always None, Groq and Google depend on the API keys.
\* keys = [groq |-> BOOLEAN, google |-> BOOLEAN]
KeySets == [groq : BOOLEAN, google : BOOLEAN]

\* get_model_config: self.models.get(model_id); "none" stands for None
NoConfig == [provider |-> "none", category |-> "none", client |-> "none"]
get_model_config(model_id) ==
  IF model_id \in ModelIds THEN models[model_id] ELSE NoConfig

\* get_client for a registered model: TRUE when the returned client is truthy
get_client(keys, model_id) ==
  LET client_type == get_model_config(model_id).client
  IN  CASE client_type = "groq"   -> keys.groq
        [] client_type = "google" -> keys.google
        [] OTHER                  -> FALSE

\* the "available" flag computed in get_available_models
client_available(keys, model_id) ==
  LET c == models[model_id].client
  IN  \/ c = "groq" /\ keys.groq
      \/ c = "google" /\ keys.google

\* the ids get_available_models lists (registry order), whatever their flag
allowed_for(user_plan, is_authenticated, model_id) ==
  /\ models[model_id].category \in plan_access(user_plan)
  /\ user_plan = "free" =>
       IF ~is_authenticated
         THEN models[model_id].provider \in free_tier_unauthenticated_providers
         ELSE models[model_id].provider \in free_tier_authenticated_providers

get_available_models(user_plan, is_authenticated) ==
  SelectSeq(ModelOrder, LAMBDA m : allowed_for(user_plan, is_authenticated, m))

\* a priority table that ranks Google before Groq
get_priority_google_first(model_id) ==
  LET c == get_model_config(model_id).client
  IN  CASE c = "google" -> 1 [] c = "groq" -> 2 [] OTHER -> 99

\* priority_order / get_priority in get_fallback_models
get_priority(model_id) ==
  LET c == get_model_config(model_id).client
  IN  CASE c = "groq" -> 1 [] c = "google" -> 2 [] OTHER -> 99

category_rank(model_id) ==
  LET c == get_model_config(model_id).category
  IN  CASE c = "basic" -> 1 [] c = "standard" -> 2 [] c = "advanced" -> 3
        [] c = "enterprise" -> 4 [] OTHER -> 5

\* the sort key of fallback_models.sort: (priority, category rank)
KeyLess(a, b) ==
  \/ get_priority(a) < get_priority(b)
  \/ get_priority(a) = get_priority(b) /\ category_rank(a) < category_rank(b)

\* list.sort is stable: insert x after every element that is not greater
RECURSIVE InsertSorted(_, _)
InsertSorted(s, x) ==
  IF s = << >> THEN << x >>
  ELSE IF KeyLess(x, Head(s)) THEN << x >> \o s
       ELSE << Head(s) >> \o InsertSorted(Tail(s), x)

RECURSIVE StableSort(_)
StableSort(s) ==
  IF s = << >> THEN << >>
  ELSE InsertSorted(StableSort(SubSeq(s, 1, Len(s) - 1)), s[Len(s)])

\* a fallback list that keeps the primary model
get_fallback_models_with_primary(keys, primary_model_id, user_plan, is_authenticated) ==
  StableSort(SelectSeq(get_available_models(user_plan, is_authenticated),
                       LAMBDA m : client_available(keys, m)))

get_fallback_models(keys, primary_model_id, user_plan, is_authenticated) ==
  LET available_model_ids ==
        SelectSeq(get_available_models(user_plan, is_authenticated),
                  LAMBDA m : client_available(keys, m))
      fallback_models ==
        SelectSeq(available_model_ids, LAMBDA m : m # primary_model_id)
  IN  StableSort(fallback_models)

\* a chat_stream that hands the requested id on as it is
chat_stream_model_as_requested(keys, model_id, user_plan, is_authenticated) == model_id

\* chat_stream: the forced Groq model for an unauthenticated free-tier caller
chat_stream_model(keys, model_id, user_plan, is_authenticated) ==
  IF user_plan = "free" /\ ~is_authenticated
    THEN LET available_models == get_available_models(user_plan, FALSE)
             listed == \E i \in DOMAIN available_models : available_models[i] = model_id
             groq == SelectSeq(available_models, LAMBDA m : models[m].provider = "Groq")
         IN  IF ~listed \/ models[model_id].provider # "Groq"
               THEN IF groq # << >> THEN groq[1] ELSE "mixtral-8x7b"
               ELSE model_id
    ELSE model_id


\* ------------------------------------------------------------------------
\* State
\* ------------------------------------------------------------------------
VARIABLES
  \* the request, fixed at construction (chat_stream)
  request,            \* modelId, userPlan, isAuthenticated of the request body
  keys,               \* which provider clients ModelManager built
  timeout,            \* int(data.get("timeout", 30)), seconds
  models_to_try,      \* [model_id] + get_fallback_models(...)
  \* stream_response
  opc,                \* position of the controlling flow
  idx,                \* position in models_to_try (attempt = idx - 1)
  last_error,
  calls,              \* model ids a worker was started for, in order
  out,                \* the event records generate() has sent to the caller
  \* _stream_with_timeout, one set per attempt (indexed by idx)
  result_queue, error_queue, stop_event, completion_event,
  \* stream_worker, per attempt
  wpc,                \* position of the worker thread
  stream,             \* chunks the provider's stream has delivered so far
  chunk,              \* the chunk the worker holds
  raised,             \* the error the provider call raised, or NoError
  enqueued,           \* every fragment put on result_queue, in order
  \* the monitor loop of the current attempt
  mpc, has_received_data, elapsed, time_since_last_chunk,
  emitted,            \* fragments the monitor yielded, per attempt
  outcome,            \* how each attempt's monitor ended
  \* analyze_security
  files,              \* data.get("files")
  apc,                \* position in analyze_security
  file_no,            \* index of file_data in files
  model_no,           \* index of model_id in its models_to_try
  attempt,            \* the retry loop's attempt, 0-based
  retry_delay,
  file_analyzed,
  vulnerabilities,
  called,             \* calls of each model for the current file
  barred,             \* models that raised a non-rate-limit error on this file
  last_call,          \* the latest provider call and how it ended
  last_sleep,         \* the latest time.sleep of the retry loop, seconds
  \* documentation_chat
  dpc                 \* position of its generate (it shares models_to_try,
                      \* idx, last_error, stream, raised, outcome and out)

reqvars == << request, keys, timeout, models_to_try >>
orchvars == << opc, idx, last_error, calls, out >>
chanvars == << result_queue, error_queue, stop_event, completion_event >>
workvars == << wpc, stream, chunk, raised, enqueued >>
monvars == << mpc, has_received_data, elapsed, time_since_last_chunk, emitted, outcome >>
chatvars == << orchvars, chanvars, workvars, monvars >>
anvars == << files, apc, file_no, model_no, attempt, retry_delay, file_analyzed,
             vulnerabilities, called, barred, last_call, last_sleep >>
docvars == << dpc >>
vars == << reqvars, chatvars, anvars, docvars >>

\* ------------------------------------------------------------------------
\* Values
\* ------------------------------------------------------------------------
\* the exceptions of a provider call: a rate-limit error and another error,
\* each with its message, and an exception whose str() is the empty text
ErrorKinds == {"RateLimited", "TransientError", "NoMessage"}
NoError == [kind |-> "none", model |-> "none"]
NoChunk == [n |-> 0, content |-> << >>]
Attempts == DOMAIN models_to_try
TimeoutTicks == timeout * TicksPerSecond
\* the clocks saturate once every comparison of the code is decided
ElapsedCap == TimeoutTicks + 2
QuietCap == QuietTicks + 1

\* the records of the outbound stream (generate in chat_stream)
ContentRecord(src, a, n) == [type |-> "content", src |-> src, att |-> a, n |-> n]
ErrorRecord == [type |-> "error", src |-> "exception", att |-> 0, n |-> 0]
DoneRecord == [type |-> "done", src |-> "marker", att |-> 0, n |-> 0]

\* line 79: last_error or 'Unknown error': None and the empty text are falsy
UnknownError == [kind |-> "Unknown error", model |-> "none"]
error_msg(le) ==
  IF le = NoError \/ le.kind = "NoMessage" THEN UnknownError ELSE le

\* line 80: yield f"\n\n[Error: {error_msg}]", sent on as content
ErrorMessageRecord(le) ==
  [type |-> "content", src |-> "errmsg", att |-> 0, n |-> 0, text |-> error_msg(le)]

\* analyze_security: the files of a request, the fixed candidate list (line
\* 297) and the retry parameters (lines 321-322)
FileData == [name : {"a.py", "b.py"}, content : {"", "code"}]
AnalyzeModels == << "mixtral-8x7b", "llama-3.3-70b", "gemini-pro" >>
AnalyzeModelIds == { AnalyzeModels[i] : i \in DOMAIN AnalyzeModels }
max_retries == 3
InitialRetryDelay == 5
WaitBuffer == 2
FileDelay == 2
\* str(api_error) of a rate-limit error, as far as line 420 reads it: the
\* numbers of the text in order, each with the character that follows it
\* (blanks apart), and the wait in seconds the provider means (0: none).
\*   "429 Too Many Requests"
\*   "429 Too Many Requests ... try again in 4s"
\*   "429 Too Many Requests ... try again in 1m4s"
Number(digits, next) == [digits |-> digits, next |-> next]
RateLimitTexts ==
  { [numbers |-> << Number(429, "T") >>, suggested |-> 0],
    [numbers |-> << Number(429, "T"), Number(4, "s") >>, suggested |-> 4],
    [numbers |-> << Number(429, "T"), Number(1, "m"), Number(4, "s") >>,
     suggested |-> 64] }
NoMatch == 0 - 1
VulnLines == {1, 2}
NoCall == [model |-> "none", result |-> "none", wait |-> 0]

\* the requests the engine is explored on
Requests ==
  { [model_id |-> "mixtral-8x7b", user_plan |-> "standard", is_authenticated |-> TRUE,
     keys |-> [groq |-> TRUE, google |-> FALSE]],
    [model_id |-> "gpt-4o", user_plan |-> "free", is_authenticated |-> TRUE,
     keys |-> [groq |-> TRUE, google |-> FALSE]],
    [model_id |-> "no-such-model", user_plan |-> "free", is_authenticated |-> FALSE,
     keys |-> [groq |-> TRUE, google |-> TRUE]],
    [model_id |-> "gpt-4o", user_plan |-> "pro", is_authenticated |-> TRUE,
     keys |-> [groq |-> FALSE, google |-> FALSE]],
    [model_id |-> "no-such-model", user_plan |-> "free", is_authenticated |-> TRUE,
     keys |-> [groq |-> TRUE, google |-> FALSE]] }

\* the requests of Scenario D: three candidates with a client each
\* (mixtral-8x7b, llama-3.3-70b, gemini-pro), and a list whose primary has none
ScenarioRequests ==
  { [model_id |-> "mixtral-8x7b", user_plan |-> "standard", is_authenticated |-> TRUE,
     keys |-> [groq |-> TRUE, google |-> TRUE]],
    [model_id |-> "claude-3-haiku", user_plan |-> "free", is_authenticated |-> TRUE,
     keys |-> [groq |-> TRUE, google |-> FALSE]] }

\* stream_response line 46, after chat_stream's validation of the model id
CandidateList(r) ==
  LET m == chat_stream_model(r.keys, r.model_id, r.user_plan, r.is_authenticated)
  IN  << m >> \o get_fallback_models(r.keys, m, r.user_plan, r.is_authenticated)

\* the body fields of a request
RequestOf(r) ==
  [model_id |-> r.model_id, user_plan |-> r.user_plan,
   is_authenticated |-> r.is_authenticated]
NoRequest == [model_id |-> "none", user_plan |-> "none", is_authenticated |-> FALSE]

\* every entitlement and every model id a chat request may carry: the
\* registered ids and an unknown one, the four plans and an unknown one
RequestedIds == ModelIds \cup {"no-such-model"}
Plans == {"free", "standard", "pro", "enterprise", "no-such-plan"}
AllRequests ==
  [model_id : RequestedIds, user_plan : Plans, is_authenticated : BOOLEAN]

\* the controlling flow and every attempt's channel set before any request
ChatIdle(position) ==
  /\ opc = position /\ idx = 0 /\ last_error = NoError /\ calls = << >> /\ out = << >>
  /\ result_queue = [a \in Attempts |-> << >>]
  /\ error_queue = [a \in Attempts |-> << >>]
  /\ stop_event = [a \in Attempts |-> FALSE]
  /\ completion_event = [a \in Attempts |-> FALSE]
  /\ wpc = [a \in Attempts |-> "unstarted"]
  /\ stream = [a \in Attempts |-> << >>]
  /\ chunk = [a \in Attempts |-> NoChunk]
  /\ raised = [a \in Attempts |-> NoError]
  /\ enqueued = [a \in Attempts |-> << >>]
  /\ mpc = "idle" /\ has_received_data = FALSE
  /\ elapsed = 0 /\ time_since_last_chunk = 0
  /\ emitted = [a \in Attempts |-> << >>]
  /\ outcome = [a \in Attempts |-> "none"]

AnalyzeIdle(position) ==
  /\ apc = position /\ file_no = 0 /\ model_no = 0 /\ attempt = 0
  /\ retry_delay = 0 /\ file_analyzed = FALSE /\ vulnerabilities = << >>
  /\ called = [m \in AnalyzeModelIds |-> 0] /\ barred = {}
  /\ last_call = NoCall /\ last_sleep = 0

\* a request to /api/chat/stream
InitChat ==
  /\ \E r \in Requests :
       /\ request = RequestOf(r)
       /\ keys = r.keys
       /\ models_to_try = CandidateList(r)
  /\ timeout = RequestTimeout
  /\ ChatIdle("loop")
  /\ files = << >>
  /\ AnalyzeIdle("idle")
  /\ dpc = "idle"

\* a request to /api/analyze/security
InitAnalyze ==
  /\ request = NoRequest
  /\ keys \in KeySets
  /\ files \in UNION { [1..n -> FileData] : n \in 1..MaxFiles }
  /\ AnalyzeIdle("files")
  /\ models_to_try = << >>
  /\ timeout = RequestTimeout
  /\ ChatIdle("idle")
  /\ dpc = "idle"

\* documentation_chat lines 992-1013: the available models that have a
\* client, the preferred ones first
preferred_models == << "llama-3.3-70b", "mixtral-8x7b", "gemini-pro" >>

documentation_models(k, user_plan, is_authenticated) ==
  LET available_model_ids ==
        SelectSeq(get_available_models(user_plan, is_authenticated),
                  LAMBDA m : client_available(k, m))
      listed(q, m) == \E i \in DOMAIN q : q[i] = m
      preferred == SelectSeq(preferred_models, LAMBDA m : listed(available_model_ids, m))
  IN  preferred \o SelectSeq(available_model_ids, LAMBDA m : ~listed(preferred, m))

\* the requests documentation_chat is explored on
DocRequests ==
  { [user_plan |-> "standard", is_authenticated |-> TRUE,
     keys |-> [groq |-> TRUE, google |-> FALSE]],
    [user_plan |-> "free", is_authenticated |-> TRUE,
     keys |-> [groq |-> TRUE, google |-> TRUE]],
    [user_plan |-> "pro", is_authenticated |-> TRUE,
     keys |-> [groq |-> FALSE, google |-> FALSE]] }

\* a request to /api/chat/documentation
InitDoc ==
  /\ \E r \in DocRequests :
       /\ request = [model_id |-> "none", user_plan |-> r.user_plan,
                     is_authenticated |-> r.is_authenticated]
       /\ keys = r.keys
       /\ models_to_try = documentation_models(r.keys, r.user_plan, r.is_authenticated)
  /\ timeout = RequestTimeout
  /\ ChatIdle("idle")
  /\ files = << >>
  /\ AnalyzeIdle("idle")
  /\ dpc = "loop"

Init == InitChat \/ InitAnalyze \/ InitDoc

\* a request to /api/chat/stream with the candidate lists of Scenario D
InitScenario ==
  /\ \E r \in ScenarioRequests :
       /\ request = RequestOf(r)
       /\ keys = r.keys
       /\ models_to_try = CandidateList(r)
  /\ timeout = RequestTimeout
  /\ ChatIdle("loop")
  /\ files = << >>
  /\ AnalyzeIdle("idle")
  /\ dpc = "idle"

\* ------------------------------------------------------------------------
\* stream_worker (the Bridge Worker thread of attempt a)
\* ------------------------------------------------------------------------
\* one result queue kept for every attempt of the request
ChannelShared(a) == 1

\* lines 87-90: every call of _stream_with_timeout builds its own queue, so
\* attempt a reads and writes the channel of its own index
Channel(a) == a

\* a queue that puts at the head
QueuePutAtHead(q, x) == << x >> \o q

\* queue.Queue: put at the tail, get from the head
QueuePut(q, x) == Append(q, x)
QueueGet(q) == Head(q)

\* does the worker enqueue this chunk: the groq and google branches drop a
\* chunk without text, the anthropic branch puts every text
Enqueues(client, c) ==
  IF client = "anthropic" THEN TRUE ELSE c.content # << >>

RECURSIVE Delivered(_)
Delivered(n) == IF n = 0 THEN 0 ELSE Len(stream[n]) + Delivered(n - 1)

\* the chunks the providers of one request deliver altogether; a list of
\* three candidates, whose workers may all be alive at once, gets one less
ChunkBudget ==
  IF Len(models_to_try) > 2 THEN MaxChunks - 1 ELSE MaxChunks

\* a worker that never tests stop_event
ProviderChunkUnchecked(a) ==
  /\ wpc[a] = "iter"
  /\ Delivered(Len(models_to_try)) < ChunkBudget
  /\ \E hasText \in BOOLEAN :
       LET n == Len(stream[a]) + 1
           c == [n |-> n, content |-> IF hasText THEN << a, n >> ELSE << >>]
       IN  /\ stream' = [stream EXCEPT ![a] = Append(@, c)]
           /\ chunk' = [chunk EXCEPT ![a] = c]
  /\ wpc' = [wpc EXCEPT ![a] = "put"]
  /\ UNCHANGED << docvars, anvars, reqvars, orchvars, chanvars, raised, enqueued, monvars >>

\* for chunk in stream: the provider stream delivers its next chunk, with or
\* without text, and the worker tests stop_event right after (break -> line 154)
ProviderChunk(a) ==
  /\ wpc[a] = "iter"
  /\ Delivered(Len(models_to_try)) < ChunkBudget
  /\ \E hasText \in BOOLEAN :
       LET n == Len(stream[a]) + 1
           c == [n |-> n, content |-> IF hasText THEN << a, n >> ELSE << >>]
       IN  /\ stream' = [stream EXCEPT ![a] = Append(@, c)]
           /\ chunk' = [chunk EXCEPT ![a] = IF stop_event[a] THEN NoChunk ELSE c]
  /\ wpc' = [wpc EXCEPT ![a] = IF stop_event[a] THEN "complete" ELSE "put"]
  /\ UNCHANGED << docvars, anvars, reqvars, orchvars, chanvars, raised, enqueued, monvars >>

\* the provider stream is exhausted: the for loop ends, line 154 is next
ProviderEnd(a) ==
  /\ wpc[a] = "iter"
  /\ wpc' = [wpc EXCEPT ![a] = "complete"]
  /\ UNCHANGED << docvars, anvars, reqvars, orchvars, chanvars, stream, chunk, raised, enqueued, monvars >>

\* a handler that sets the completion signal without putting the error
ProviderRaiseUnreported(a) ==
  /\ wpc[a] = "iter"
  /\ \E k \in ErrorKinds :
       raised' = [raised EXCEPT ![a] = [kind |-> k, model |-> models_to_try[a]]]
  /\ wpc' = [wpc EXCEPT ![a] = "complete"]
  /\ UNCHANGED << docvars, anvars, reqvars, orchvars, chanvars, stream, chunk, enqueued, monvars >>

\* the provider call raises (on creation or while being iterated) and the
\* handler runs error_queue.put(e), line 156
ProviderRaise(a) ==
  /\ wpc[a] = "iter"
  /\ \E k \in ErrorKinds :
       LET e == [kind |-> k, model |-> models_to_try[a]]
       IN  /\ raised' = [raised EXCEPT ![a] = e]
           /\ error_queue' = [error_queue EXCEPT ![a] = Append(@, e)]
  /\ wpc' = [wpc EXCEPT ![a] = "complete"]
  /\ UNCHANGED << docvars, anvars, reqvars, orchvars, result_queue, stop_event, completion_event,
                  stream, chunk, enqueued, monvars >>

\* if chunk...content: result_queue.put(content)
WorkerPut(a) ==
  /\ wpc[a] = "put"
  /\ IF Enqueues(get_model_config(models_to_try[a]).client, chunk[a])
       THEN /\ result_queue' = [result_queue EXCEPT ![Channel(a)] = QueuePut(@, chunk[a].content)]
            /\ enqueued' = [enqueued EXCEPT ![a] = Append(@, chunk[a].content)]
       ELSE UNCHANGED << result_queue, enqueued >>
  /\ chunk' = [chunk EXCEPT ![a] = NoChunk]
  /\ wpc' = [wpc EXCEPT ![a] = "iter"]
  /\ UNCHANGED << docvars, anvars, reqvars, orchvars, error_queue, stop_event, completion_event,
                  stream, raised, monvars >>

\* completion_event.set(), in the try body and in the handler alike
WorkerComplete(a) ==
  /\ wpc[a] = "complete"
  /\ completion_event' = [completion_event EXCEPT ![a] = TRUE]
  /\ wpc' = [wpc EXCEPT ![a] = "exiting"]
  /\ UNCHANGED << docvars, anvars, reqvars, orchvars, result_queue, error_queue, stop_event,
                  stream, chunk, raised, enqueued, monvars >>

\* the thread's target returns: thread.is_alive() turns false
WorkerExit(a) ==
  /\ wpc[a] = "exiting"
  /\ wpc' = [wpc EXCEPT ![a] = "dead"]
  /\ UNCHANGED << docvars, anvars, reqvars, orchvars, chanvars, stream, chunk, raised, enqueued, monvars >>

thread_is_alive(a) == wpc[a] # "dead"


\* ------------------------------------------------------------------------
\* _stream_with_timeout: the monitor loop of the current attempt (idx)
\* ------------------------------------------------------------------------
Monitoring == opc = "streaming"

\* a deadline check that does not look at has_received_data
TimeoutConditionAnyTime == elapsed > TimeoutTicks

\* a deadline check that allows one poll more
TimeoutConditionLate == elapsed > TimeoutTicks + 1 /\ ~has_received_data

\* line 172: elapsed > timeout and not has_received_data
TimeoutCondition == elapsed > TimeoutTicks /\ ~has_received_data

\* line 177: has_received_data and time_since_last_chunk > 10 and completion set
QuietCondition ==
  has_received_data /\ time_since_last_chunk > QuietTicks /\ completion_event[idx]

\* line 187: completion_event.is_set() and result_queue.empty()
DrainedCondition == completion_event[idx] /\ result_queue[Channel(idx)] = << >>

\* line 198: not thread.is_alive() and result_queue.empty() and completion set
DeadCondition ==
  ~thread_is_alive(idx) /\ result_queue[Channel(idx)] = << >> /\ completion_event[idx]

\* a generator end after which the loop over models_to_try goes on
MonitorBreakContinue ==
  /\ outcome' = [outcome EXCEPT ![idx] = "DONE"]
  /\ mpc' = "idle"
  /\ opc' = "loop"

\* the monitor's generator ends without raising: stream_response returns
\* (line 67) and generate goes on to send the done marker
MonitorBreak ==
  /\ outcome' = [outcome EXCEPT ![idx] = "DONE"]
  /\ mpc' = "idle"
  /\ opc' = "gen_done"

\* lines 169-178: the clocks are read, then the deadline check (on timeout,
\* stop_event.set()) and the quiet-period exit
MonitorTop ==
  /\ Monitoring /\ mpc = "top"
  /\ IF TimeoutCondition
       THEN /\ stop_event' = [stop_event EXCEPT ![idx] = TRUE]
            /\ mpc' = "raise_timeout"
            /\ UNCHANGED << orchvars, outcome >>
       ELSE /\ IF QuietCondition
                 THEN MonitorBreak /\ UNCHANGED << idx, last_error, calls, out >>
                 ELSE mpc' = "errors" /\ UNCHANGED << orchvars, outcome >>
            /\ UNCHANGED stop_event
  /\ UNCHANGED << docvars, anvars, reqvars, result_queue, error_queue, completion_event,
                  workvars, has_received_data, elapsed, time_since_last_chunk,
                  emitted >>

\* a Timeout after which the monitor goes on reading the channel
MonitorRaiseTimeoutResumed ==
  /\ Monitoring /\ mpc = "raise_timeout"
  /\ outcome' = [outcome EXCEPT ![idx] = "TIMED_OUT"]
  /\ last_error' = [kind |-> "Timeout", model |-> models_to_try[idx]]
  /\ mpc' = "errors"
  /\ opc' = opc
  /\ UNCHANGED << docvars, anvars, reqvars, idx, calls, out, chanvars, workvars,
                  has_received_data, elapsed, time_since_last_chunk, emitted >>

\* a Timeout whose handler does not record it in last_error
MonitorRaiseTimeoutUnrecorded ==
  /\ Monitoring /\ mpc = "raise_timeout"
  /\ outcome' = [outcome EXCEPT ![idx] = "TIMED_OUT"]
  /\ last_error' = last_error
  /\ mpc' = "idle"
  /\ opc' = "loop"
  /\ UNCHANGED << docvars, anvars, reqvars, idx, calls, out, chanvars, workvars,
                  has_received_data, elapsed, time_since_last_chunk, emitted >>

\* a TimeoutError that nothing catches: it leaves stream_response
MonitorRaiseTimeoutUncaught ==
  /\ Monitoring /\ mpc = "raise_timeout"
  /\ outcome' = [outcome EXCEPT ![idx] = "TIMED_OUT"]
  /\ last_error' = [kind |-> "Timeout", model |-> models_to_try[idx]]
  /\ mpc' = "idle"
  /\ opc' = "raise"
  /\ UNCHANGED << docvars, anvars, reqvars, idx, calls, out, chanvars, workvars,
                  has_received_data, elapsed, time_since_last_chunk, emitted >>

\* line 174 raise TimeoutError, caught at line 69 of stream_response
MonitorRaiseTimeout ==
  /\ Monitoring /\ mpc = "raise_timeout"
  /\ outcome' = [outcome EXCEPT ![idx] = "TIMED_OUT"]
  /\ last_error' = [kind |-> "Timeout", model |-> models_to_try[idx]]
  /\ mpc' = "idle"
  /\ opc' = "loop"
  /\ UNCHANGED << docvars, anvars, reqvars, idx, calls, out, chanvars, workvars,
                  has_received_data, elapsed, time_since_last_chunk, emitted >>

\* lines 180-184: error = error_queue.get(); stop_event.set(); raise error,
\* caught at line 73 of stream_response (last_error = str(e))
MonitorErrors ==
  /\ Monitoring /\ mpc = "errors"
  /\ IF error_queue[idx] # << >>
       THEN /\ error_queue' = [error_queue EXCEPT ![idx] = Tail(@)]
            /\ stop_event' = [stop_event EXCEPT ![idx] = TRUE]
            /\ outcome' = [outcome EXCEPT ![idx] = "FAILED"]
            /\ last_error' = Head(error_queue[idx])
            /\ mpc' = "idle"
            /\ opc' = "loop"
       ELSE /\ mpc' = "completed"
            /\ UNCHANGED << error_queue, stop_event, outcome, last_error, opc >>
  /\ UNCHANGED << docvars, anvars, reqvars, idx, calls, out, result_queue, completion_event, workvars,
                  has_received_data, elapsed, time_since_last_chunk, emitted >>

\* lines 186-188: the worker completed and the queue is empty
MonitorCompleted ==
  /\ Monitoring /\ mpc = "completed"
  /\ IF DrainedCondition
       THEN MonitorBreak /\ UNCHANGED << idx, last_error, calls, out >>
       ELSE mpc' = "get" /\ UNCHANGED << orchvars, outcome >>
  /\ UNCHANGED << docvars, anvars, reqvars, chanvars, workvars,
                  has_received_data, elapsed, time_since_last_chunk, emitted >>

\* lines 192-195: a chunk is there: take it, note the time, yield it; the
\* chunk goes through stream_response's yield from to generate, which sends
\* a content record; the monitor stays suspended in the yield
MonitorGet ==
  /\ Monitoring /\ mpc = "get"
  /\ result_queue[Channel(idx)] # << >>
  /\ LET got == QueueGet(result_queue[Channel(idx)])
     IN  /\ emitted' = [emitted EXCEPT ![idx] = Append(@, got)]
         /\ out' = Append(out, ContentRecord("fragment", got[1], got[2]))
  /\ result_queue' = [result_queue EXCEPT ![Channel(idx)] = Tail(@)]
  /\ has_received_data' = TRUE
  /\ time_since_last_chunk' = 0
  /\ mpc' = "yielded"
  /\ UNCHANGED << docvars, anvars, reqvars, opc, idx, last_error, calls, error_queue, stop_event,
                  completion_event, workvars, elapsed, outcome >>

\* the caller asks for the next record: the generator resumes after the
\* yield and goes to the top of the loop
MonitorResume ==
  /\ Monitoring /\ mpc = "yielded"
  /\ mpc' = "top"
  /\ UNCHANGED << docvars, anvars, reqvars, orchvars, chanvars, workvars,
                  has_received_data, elapsed, time_since_last_chunk, emitted, outcome >>

\* the caller closes the stream while the monitor is suspended in the yield
\* of line 195: GeneratorExit is raised there; no handler and no finally of
\* _stream_with_timeout, stream_response or generate catches it, so the three
\* generators end, and stop_event stays as it is
CallerClose ==
  /\ Monitoring /\ mpc = "yielded"
  /\ outcome' = [outcome EXCEPT ![idx] = "CLOSED"]
  /\ mpc' = "idle"
  /\ opc' = "abandoned"
  /\ UNCHANGED << docvars, anvars, reqvars, idx, last_error, calls, out, chanvars, workvars,
                  has_received_data, elapsed, time_since_last_chunk, emitted >>

\* lines 196-200: queue.Empty
MonitorEmpty ==
  /\ Monitoring /\ mpc = "empty"
  /\ IF DeadCondition
       THEN MonitorBreak /\ UNCHANGED << idx, last_error, calls, out >>
       ELSE mpc' = "top" /\ UNCHANGED << orchvars, outcome >>
  /\ UNCHANGED << docvars, anvars, reqvars, chanvars, workvars,
                  has_received_data, elapsed, time_since_last_chunk, emitted >>

\* one poll interval passes: while the monitor is blocked in
\* result_queue.get(timeout=0.5) on an empty queue (the get then raises
\* queue.Empty), or while the caller leaves the generator suspended
Tick ==
  /\ Monitoring
  /\ \/ mpc = "get" /\ result_queue[Channel(idx)] = << >> /\ mpc' = "empty"
     \/ mpc = "yielded" /\ mpc' = mpc /\ time_since_last_chunk < QuietCap
  /\ elapsed' = Min(elapsed + 1, ElapsedCap)
  /\ time_since_last_chunk' = Min(time_since_last_chunk + 1, QuietCap)
  /\ UNCHANGED << docvars, anvars, reqvars, orchvars, chanvars, workvars,
                  has_received_data, emitted, outcome >>

\* ------------------------------------------------------------------------
\* stream_response: the loop over models_to_try, and generate in chat_stream
\* ------------------------------------------------------------------------
\* a test that looks at the registry entry only
SkippedWithoutEntry(model_id) == get_model_config(model_id) = NoConfig

\* lines 51-57: no registry entry, or no client: continue
Skipped(model_id) ==
  \/ get_model_config(model_id) = NoConfig
  \/ ~get_client(keys, model_id)

\* a notice test that starts one attempt later
NoticeDueLater(position) == position - 1 > 1

\* line 60: the switch notice is sent when attempt > 0
NoticeDue(position) == position - 1 > 0

OrchSkip ==
  /\ opc = "loop"
  /\ idx < Len(models_to_try)
  /\ Skipped(models_to_try[idx + 1])
  /\ idx' = idx + 1
  /\ UNCHANGED << docvars, anvars, reqvars, opc, last_error, calls, out, chanvars, workvars, monvars >>

\* a start that first joins the thread of the attempt before
OrchStartAfterJoin ==
  /\ opc = "loop"
  /\ idx < Len(models_to_try)
  /\ ~Skipped(models_to_try[idx + 1])
  /\ \A a \in Attempts : wpc[a] = "unstarted" \/ ~thread_is_alive(a)
  /\ idx' = idx + 1
  /\ out' = IF NoticeDue(idx + 1)
              THEN Append(out, ContentRecord("notice", idx + 1, 0))
              ELSE out
  /\ calls' = Append(calls, models_to_try[idx + 1])
  /\ wpc' = [wpc EXCEPT ![idx + 1] = "iter"]
  /\ mpc' = "top"
  /\ has_received_data' = FALSE
  /\ elapsed' = 0
  /\ time_since_last_chunk' = 0
  /\ outcome' = [outcome EXCEPT ![idx + 1] = "running"]
  /\ opc' = "streaming"
  /\ UNCHANGED << docvars, anvars, reqvars, last_error, chanvars, stream, chunk, raised, enqueued, emitted >>

\* lines 59-66 and 87-165: the notice, then a fresh channel set, the worker
\* thread and the monitor's start time
OrchStart ==
  /\ opc = "loop"
  /\ idx < Len(models_to_try)
  /\ ~Skipped(models_to_try[idx + 1])
  /\ idx' = idx + 1
  /\ out' = IF NoticeDue(idx + 1)
              THEN Append(out, ContentRecord("notice", idx + 1, 0))
              ELSE out
  /\ calls' = Append(calls, models_to_try[idx + 1])
  /\ wpc' = [wpc EXCEPT ![idx + 1] = "iter"]
  /\ mpc' = "top"
  /\ has_received_data' = FALSE
  /\ elapsed' = 0
  /\ time_since_last_chunk' = 0
  /\ outcome' = [outcome EXCEPT ![idx + 1] = "running"]
  /\ opc' = "streaming"
  /\ UNCHANGED << docvars, anvars, reqvars, last_error, chanvars, stream, chunk, raised, enqueued, emitted >>

\* lines 78-80: every candidate was tried: the error text is yielded as content
OrchAllFailed ==
  /\ opc = "loop"
  /\ idx = Len(models_to_try)
  /\ out' = Append(out, ErrorMessageRecord(last_error))
  /\ opc' = "raise"
  /\ UNCHANGED << docvars, anvars, reqvars, idx, last_error, calls, chanvars, workvars, monvars >>

\* a handler that swallows the exception without a record
GenErrorSilent ==
  /\ opc = "raise"
  /\ out' = out
  /\ opc' = "gen_done"
  /\ UNCHANGED << docvars, anvars, reqvars, idx, last_error, calls, chanvars, workvars, monvars >>

\* line 81 raise Exception(error_msg); generate's handler sends an error record
GenError ==
  /\ opc = "raise"
  /\ out' = Append(out, ErrorRecord)
  /\ opc' = "gen_done"
  /\ UNCHANGED << docvars, anvars, reqvars, idx, last_error, calls, chanvars, workvars, monvars >>

\* generate: yield "data: [DONE]"
GenDone ==
  /\ opc = "gen_done"
  /\ out' = Append(out, DoneRecord)
  /\ opc' = "closed"
  /\ UNCHANGED << docvars, anvars, reqvars, idx, last_error, calls, chanvars, workvars, monvars >>

\* ------------------------------------------------------------------------
\* analyze_security: per file, the candidate loop and the retry loop
\* ------------------------------------------------------------------------
\* the responses a model may give: every list of at most MaxVulns reported lines
RECURSIVE SeqsUpTo(_, _)
SeqsUpTo(S, n) ==
  IF n = 0 THEN { << >> }
  ELSE LET shorter == SeqsUpTo(S, n - 1)
       IN  shorter \cup { Append(q, x) : q \in shorter, x \in S }

\* lines 405-407: vuln["file"] = file_name; vuln["id"] = f"{file_name}_{line}_{len(vulnerabilities)}"
Tagged(file_vulns, file_name, found) ==
  [ i \in DOMAIN file_vulns |->
      [file |-> file_name, line |-> file_vulns[i],
       id |-> << file_name, file_vulns[i], Len(found) >>] ]

\* lines 140-145 and 298: the next file; a file without content is skipped
AnalyzeNextFile ==
  /\ apc = "files"
  /\ IF file_no = Len(files)
       THEN apc' = "done" /\ UNCHANGED << file_no, model_no, file_analyzed, called, barred >>
       ELSE /\ file_no' = file_no + 1
            /\ IF files[file_no + 1].content = ""
                 THEN UNCHANGED << apc, model_no, file_analyzed, called, barred >>
                 ELSE /\ apc' = "models"
                      /\ model_no' = 0
                      /\ file_analyzed' = FALSE
                      /\ called' = [m \in AnalyzeModelIds |-> 0]
                      /\ barred' = {}
  /\ UNCHANGED << docvars, reqvars, chatvars, files, attempt, retry_delay, vulnerabilities,
                  last_call, last_sleep >>

\* lines 300-322: the next candidate; without client or registry entry it is
\* skipped; otherwise the delay between files, then the retry loop starts
AnalyzeNextModel ==
  /\ apc = "models"
  /\ IF model_no = Len(AnalyzeModels)
       THEN apc' = "files" /\ UNCHANGED << model_no, attempt, retry_delay, last_sleep >>
       ELSE /\ model_no' = model_no + 1
            /\ IF Skipped(AnalyzeModels[model_no + 1])
                 THEN UNCHANGED << apc, attempt, retry_delay, last_sleep >>
                 ELSE /\ last_sleep' = IF files[file_no] # files[1] THEN FileDelay ELSE 0
                      /\ retry_delay' = InitialRetryDelay
                      /\ attempt' = 0
                      /\ apc' = "call"
  /\ UNCHANGED << docvars, reqvars, chatvars, files, file_no, file_analyzed, vulnerabilities,
                  called, barred, last_call >>

\* a retry test that lets the loop run one round more
CanRetryOnceMore == attempt < max_retries

\* attempt < max_retries - 1: the retry loop has another round
CanRetry == attempt < max_retries - 1

\* lines 429-434: after a rate-limit error (and its sleep)
RateLimitRetries == CanRetry
\* lines 438-443: after any other error
ErrorRetries == CanRetry
\* lines 387-400: after a response that holds no JSON
BadJsonRetries == CanRetry

\* line 420: re.search(r'(\d+\.?\d*)\s*s', error_str, re.IGNORECASE): the
\* first number of the text that an "s" follows, or NoMatch
RECURSIVE wait_time_match(_)
wait_time_match(numbers) ==
  IF numbers = << >> THEN NoMatch
  ELSE IF Head(numbers).next \in {"s", "S"} THEN Head(numbers).digits
       ELSE wait_time_match(Tail(numbers))

\* lines 421-424: the matched number plus the buffer, else the current delay
wait_time(error_str) ==
  IF wait_time_match(error_str.numbers) # NoMatch
    THEN wait_time_match(error_str.numbers) + WaitBuffer
    ELSE retry_delay

\* continue (next round of the retry loop) or break (on to the next model)
AnalyzeContinue(retries) ==
  IF retries
    THEN /\ retry_delay' = retry_delay * 2
         /\ attempt' = attempt + 1
         /\ apc' = "call"
    ELSE /\ apc' = "models"
         /\ UNCHANGED << retry_delay, attempt >>

AnalyzeCalled(result, suggested) ==
  /\ called' = [called EXCEPT ![AnalyzeModels[model_no]] = @ + 1]
  /\ last_call' = [model |-> AnalyzeModels[model_no], result |-> result, wait |-> suggested]

\* a success after which the loop over the models goes on
AnalyzeCallOkContinue ==
  /\ apc = "call"
  /\ AnalyzeCalled("ok", 0)
  /\ \E file_vulns \in SeqsUpTo(VulnLines, MaxVulns) :
       vulnerabilities' =
         vulnerabilities \o Tagged(file_vulns, files[file_no].name, vulnerabilities)
  /\ file_analyzed' = TRUE
  /\ apc' = "models"
  /\ UNCHANGED << docvars, reqvars, chatvars, files, file_no, model_no, attempt, retry_delay,
                  barred, last_sleep >>

\* lines 326-412: the call returns a response that parses
AnalyzeCallOk ==
  /\ apc = "call"
  /\ AnalyzeCalled("ok", 0)
  /\ \E file_vulns \in SeqsUpTo(VulnLines, MaxVulns) :
       vulnerabilities' =
         vulnerabilities \o Tagged(file_vulns, files[file_no].name, vulnerabilities)
  /\ file_analyzed' = TRUE
  /\ apc' = "files"
  /\ UNCHANGED << docvars, reqvars, chatvars, files, file_no, model_no, attempt, retry_delay,
                  barred, last_sleep >>

\* lines 365-400: the response holds no JSON that parses
AnalyzeCallBadJson ==
  /\ apc = "call"
  /\ AnalyzeCalled("bad_json", 0)
  /\ last_sleep' = IF BadJsonRetries THEN retry_delay ELSE last_sleep
  /\ AnalyzeContinue(BadJsonRetries)
  /\ UNCHANGED << docvars, reqvars, chatvars, files, file_no, model_no, file_analyzed,
                  vulnerabilities, barred >>

\* lines 414-434: the call raises an error whose text marks a rate limit
AnalyzeCallRateLimit ==
  /\ apc = "call"
  /\ \E error_str \in RateLimitTexts :
       /\ AnalyzeCalled("rate_limit", error_str.suggested)
       /\ last_sleep' = wait_time(error_str)
  /\ AnalyzeContinue(RateLimitRetries)
  /\ UNCHANGED << docvars, reqvars, chatvars, files, file_no, model_no, file_analyzed,
                  vulnerabilities, barred >>

\* lines 435-443: the call raises any other error
AnalyzeCallError ==
  /\ apc = "call"
  /\ AnalyzeCalled("error", 0)
  /\ barred' = barred \cup { AnalyzeModels[model_no] }
  /\ last_sleep' = IF ErrorRetries THEN retry_delay ELSE last_sleep
  /\ AnalyzeContinue(ErrorRetries)
  /\ UNCHANGED << docvars, reqvars, chatvars, files, file_no, model_no, file_analyzed,
                  vulnerabilities >>

\* ------------------------------------------------------------------------
\* documentation_chat: generate (lines 1022-1091) streams straight from the
\* provider, without worker thread or deadline
\* ------------------------------------------------------------------------
\* what a documentation_chat step leaves alone
DocFrame ==
  UNCHANGED << reqvars, anvars, opc, calls, chanvars, wpc, chunk, enqueued,
               mpc, has_received_data, elapsed, time_since_last_chunk, emitted >>

\* lines 1024-1052: the next model; without registry entry or client it is
\* passed over, otherwise the provider stream is opened
DocNextModel ==
  /\ dpc = "loop"
  /\ idx < Len(models_to_try)
  /\ idx' = idx + 1
  /\ IF Skipped(models_to_try[idx + 1])
       THEN UNCHANGED << dpc, outcome >>
       ELSE /\ dpc' = "stream"
            /\ outcome' = [outcome EXCEPT ![idx + 1] = "running"]
  /\ UNCHANGED << last_error, out, stream, raised >>
  /\ DocFrame

\* lines 1054-1057 (1078-1080 for Google): the stream delivers a chunk and
\* its text, if it has one, goes to the caller as a content record
DocChunk ==
  /\ dpc = "stream"
  /\ Delivered(Len(models_to_try)) < ChunkBudget
  /\ \E hasText \in BOOLEAN :
       LET n == Len(stream[idx]) + 1
           c == [n |-> n, content |-> IF hasText THEN << idx, n >> ELSE << >>]
       IN  /\ stream' = [stream EXCEPT ![idx] = Append(@, c)]
           /\ out' = IF Enqueues(get_model_config(models_to_try[idx]).client, c)
                       THEN Append(out, ContentRecord("doc_fragment", idx, n))
                       ELSE out
  /\ UNCHANGED << dpc, idx, last_error, raised, outcome >>
  /\ DocFrame

\* lines 1059-1060: the stream is exhausted: yield [DONE]; return
DocEnd ==
  /\ dpc = "stream"
  /\ out' = Append(out, DoneRecord)
  /\ outcome' = [outcome EXCEPT ![idx] = "DONE"]
  /\ dpc' = "closed"
  /\ UNCHANGED << idx, last_error, stream, raised >>
  /\ DocFrame

\* lines 1083-1086: the call raises, on creation or while being iterated:
\* last_error = str(e); continue
DocRaise ==
  /\ dpc = "stream"
  /\ \E k \in ErrorKinds :
       LET e == [kind |-> k, model |-> models_to_try[idx]]
       IN  raised' = [raised EXCEPT ![idx] = e] /\ last_error' = e
  /\ outcome' = [outcome EXCEPT ![idx] = "FAILED"]
  /\ dpc' = "loop"
  /\ UNCHANGED << idx, out, stream >>
  /\ DocFrame

\* lines 1088-1090 (1015-1017 when the list is empty): the error record
DocAllFailed ==
  /\ dpc = "loop"
  /\ idx = Len(models_to_try)
  /\ out' = Append(out, ErrorRecord)
  /\ dpc' = "errored"
  /\ UNCHANGED << idx, last_error, stream, raised, outcome >>
  /\ DocFrame

\* line 1091 (1018): yield [DONE]
DocDone ==
  /\ dpc = "errored"
  /\ out' = Append(out, DoneRecord)
  /\ dpc' = "closed"
  /\ UNCHANGED << idx, last_error, stream, raised, outcome >>
  /\ DocFrame

NextChat ==
  \/ \E a \in Attempts : ProviderChunk(a)
  \/ \E a \in Attempts : ProviderEnd(a)
  \/ \E a \in Attempts : ProviderRaise(a)
  \/ \E a \in Attempts : WorkerPut(a)
  \/ \E a \in Attempts : WorkerComplete(a)
  \/ \E a \in Attempts : WorkerExit(a)
  \/ MonitorTop \/ MonitorRaiseTimeout \/ MonitorErrors
  \/ MonitorCompleted \/ MonitorGet \/ MonitorResume \/ MonitorEmpty
  \/ Tick \/ CallerClose
  \/ OrchSkip \/ OrchStart \/ OrchAllFailed \/ GenError \/ GenDone

NextAnalyze ==
  \/ AnalyzeNextFile \/ AnalyzeNextModel
  \/ AnalyzeCallOk \/ AnalyzeCallBadJson \/ AnalyzeCallRateLimit \/ AnalyzeCallError

NextDoc ==
  \/ DocNextModel \/ DocChunk \/ DocEnd \/ DocRaise \/ DocAllFailed \/ DocDone

Next == NextChat \/ NextAnalyze \/ NextDoc

Spec == Init /\ [][Next]_vars

\* The chat endpoint under the scheduling the runtime gives: the monitor and
\* the controlling flow keep running, time passes, the caller keeps reading,
\* and a worker thread runs its own statements.  Nothing obliges a provider
\* to deliver, end or raise.
ChatFairness ==
  /\ WF_vars(MonitorTop \/ MonitorRaiseTimeout \/ MonitorErrors \/ MonitorCompleted
             \/ MonitorGet \/ MonitorEmpty)
  /\ WF_vars(MonitorResume)
  /\ WF_vars(Tick)
  /\ WF_vars(OrchSkip \/ OrchStart \/ OrchAllFailed \/ GenError \/ GenDone)
  /\ WF_vars(\E a \in Attempts : WorkerPut(a) \/ WorkerComplete(a) \/ WorkerExit(a))

FairSpec == InitChat /\ [][NextChat]_vars /\ ChatFairness

\* the "timeout" field of the request body: absent, or a number of seconds,
\* here the model's deadline, the quiet period and one second more
NoTimeoutField == [given |-> FALSE, value |-> 0]
TimeoutFields ==
  {NoTimeoutField} \cup
  { [given |-> TRUE, value |-> v] : v \in {RequestTimeout, QuietSeconds, QuietSeconds + 1} }

\* chat_stream.generate line 80: timeout = int(data.get("timeout", 30));
\* the value is passed on to stream_response as it is
request_timeout(field) == IF field.given THEN field.value ELSE DefaultTimeout

\* candidate selection alone, on every request and every set of clients:
\* chat_stream lines 63-73 and stream_response line 46
InitSelect ==
  /\ request \in AllRequests
  /\ keys \in KeySets
  /\ models_to_try = << >>
  /\ timeout \in { request_timeout(f) : f \in TimeoutFields }
  /\ ChatIdle("select")
  /\ files = << >>
  /\ AnalyzeIdle("idle")
  /\ dpc = "idle"

Select ==
  /\ opc = "select"
  /\ models_to_try' =
       CandidateList([model_id |-> request.model_id, user_plan |-> request.user_plan,
                      is_authenticated |-> request.is_authenticated, keys |-> keys])
  /\ opc' = "selected"
  /\ UNCHANGED << request, keys, timeout, idx, last_error, calls, out, chanvars,
                  workvars, monvars, anvars, docvars >>

SelectSpec == InitSelect /\ [][Select]_vars

\* the chat endpoint on the candidate lists of Scenario D
ScenarioSpec == InitScenario /\ [][NextChat]_vars


\* ------------------------------------------------------------------------
\* Vocabulary of the properties
\* ------------------------------------------------------------------------
Terminal == {"DONE", "TIMED_OUT", "FAILED"}
Abandoned(a) == outcome[a] \in {"TIMED_OUT", "FAILED"}
Started(a) == wpc[a] # "unstarted"

IsPrefix(s, t) == Len(s) <= Len(t) /\ SubSeq(t, 1, Len(s)) = s

\* the texts of a provider stream, in the order the provider produced them
RECURSIVE TextsOf(_)
TextsOf(st) ==
  IF st = << >> THEN << >>
  ELSE IF Head(st).content # << >> THEN << Head(st).content >> \o TextsOf(Tail(st))
       ELSE TextsOf(Tail(st))

\* the fragments among the caller's records, as the texts they carry
RECURSIVE FragmentsIn(_)
FragmentsIn(o) ==
  IF o = << >> THEN << >>
  ELSE IF Head(o).src = "fragment"
         THEN << << Head(o).att, Head(o).n >> >> \o FragmentsIn(Tail(o))
         ELSE FragmentsIn(Tail(o))

\* the caller's fragments that attempt a's worker produced
FragmentsOf(o, a) == SelectSeq(FragmentsIn(o), LAMBDA f : f[1] = a)

\* an error explanation reached the caller: generate's error record
Explained(o) == \E i \in DOMAIN o : o[i].type = "error"

\* every candidate of the list is out: skipped, timed out, or its provider raised
EveryCandidateFailed ==
  \A a \in Attempts :
    \/ Skipped(models_to_try[a])
    \/ outcome[a] = "TIMED_OUT"
    \/ raised[a] # NoError

\* ------------------------------------------------------------------------
\* Properties
\* ------------------------------------------------------------------------

\* C1: an attempt whose worker put an error on the error queue never ends
\* DONE while that error is still unread on the queue.
C1_NoDoneWithPendingError ==
  \A a \in Attempts : outcome[a] = "DONE" => error_queue[a] = << >>

\* C2: no silent drop: when the stream is closed and every candidate failed
\* (error or timeout), the caller has received an error record.
C2_NoSilentDrop ==
  (opc = "closed" /\ EveryCandidateFailed) => Explained(out)

\* C3: ordering: when the request succeeded (the last attempt ended DONE and
\* its provider did not raise), the fragments the caller received are exactly
\* the texts of that provider, with nothing from an abandoned candidate.
C3_OnlyTheWinner ==
  (opc = "closed" /\ idx > 0 /\ outcome[idx] = "DONE" /\ raised[idx] = NoError)
    => FragmentsIn(out) = TextsOf(stream[idx])

\* C4: an attempt that ended DONE has an empty channel and has emitted every
\* fragment its worker enqueued.
C4_DrainedWhenDone ==
  \A a \in Attempts :
    outcome[a] = "DONE" =>
      /\ result_queue[Channel(a)] = << >>
      /\ emitted[a] = enqueued[a]

\* C5: within an attempt the emitted fragments are, in order, a prefix of the
\* enqueued ones, which are in the provider's order: what was enqueued is a
\* prefix of the provider's texts, and it is what was emitted followed by
\* what still waits in the channel.
C5_EmittedPrefix ==
  \A a \in Attempts :
    /\ IsPrefix(emitted[a], enqueued[a])
    /\ IsPrefix(enqueued[a], TextsOf(stream[a]))
    /\ enqueued[a] = emitted[a] \o result_queue[Channel(a)]

\* C5 witness: an attempt has emitted the two fragments its worker enqueued
C5_Witness ==
  \E a \in Attempts : Len(emitted[a]) >= 2 /\ emitted[a] = enqueued[a]


\* the provider of the current attempt has neither delivered, ended nor raised
ProviderSilent(a) == wpc[a] = "iter" /\ stream[a] = << >>

\* C6: every attempt ends: whenever the monitor of an attempt is running, the
\* controlling flow eventually leaves it (DONE, TIMED_OUT or FAILED).
C6_AttemptEnds == (opc = "streaming") ~> (opc # "streaming")

\* C7: deadline bound: Timeout is raised with the stall signal set, after the
\* deadline has elapsed and at most one poll later; and while the provider
\* stays silent the monitor is never still waiting later than that.
C7_DeadlineBound ==
  /\ mpc = "raise_timeout" =>
       /\ stop_event[idx]
       /\ elapsed > TimeoutTicks
       /\ elapsed <= TimeoutTicks + 1
  /\ (Monitoring /\ mpc # "raise_timeout" /\ ProviderSilent(idx)) =>
       elapsed <= TimeoutTicks + 1

\* C7 witness: the Timeout of an attempt whose provider stayed silent
C7_Witness ==
  /\ Monitoring /\ mpc = "raise_timeout"
  /\ ProviderSilent(idx)
  /\ elapsed = TimeoutTicks + 1

\* C8: once an attempt is abandoned, nothing its worker enqueues reaches the
\* caller: every fragment the caller holds was yielded by the monitor of its
\* own attempt, in attempt order, and an abandoned attempt's share of the
\* caller's stream never grows.
C8_NoLateFragments ==
  [][ /\ \A a \in Attempts :
           Abandoned(a) => FragmentsOf(out', a) = FragmentsOf(out, a)
      /\ \A a \in Attempts : FragmentsOf(out', a) = emitted'[a]
      /\ \A i, j \in DOMAIN FragmentsIn(out') :
           i < j => FragmentsIn(out')[i][1] <= FragmentsIn(out')[j][1] ]_vars

\* C8 witness: the worker of an abandoned attempt is still running and about
\* to enqueue a fragment, while the next attempt's monitor has already sent a
\* fragment of its own worker to the caller
C8_Witness ==
  \E a \in Attempts :
    /\ Abandoned(a) /\ wpc[a] = "put" /\ chunk[a].content # << >>
    /\ idx > a /\ Monitoring /\ emitted[idx] # << >>

\* how often the streaming orchestrator started a worker for model m
CallsOf(m) == Cardinality({ i \in DOMAIN calls : calls[i] = m })

\* the streaming orchestrator has left attempt a behind
MovedOn(a) == idx > a \/ (idx = a /\ opc \in {"raise", "gen_done", "closed"})

\* C9: after a non-rate-limit error a candidate is never called again: the
\* streaming orchestrator starts no model twice in a request, and
\* analyze_security never calls, for the same file, a model that has raised
\* such an error.
C9_NoRecallAfterError ==
  /\ \A m \in ModelIds : CallsOf(m) <= 1
  /\ apc = "call" => AnalyzeModels[model_no] \notin barred

\* C10: in the streaming orchestrator a candidate that failed with a
\* rate-limit error is left behind only once its bounded retries are used
\* up, that is after max_retries calls of it.
C10_RateLimitRetried ==
  \A a \in Attempts :
    (outcome[a] = "FAILED" /\ raised[a].kind = "RateLimited" /\ MovedOn(a))
      => CallsOf(models_to_try[a]) = max_retries

\* C11: retry bound: for one logical request (one chat request, one file of
\* analyze_security) no candidate is called more than max_retries times, and a
\* candidate analyze_security leaves behind after a rate-limit error has been
\* called exactly max_retries times.
C11_RetryBound ==
  /\ \A m \in AnalyzeModelIds : called[m] <= max_retries
  /\ \A m \in ModelIds : CallsOf(m) <= max_retries
  /\ (apc = "models" /\ model_no >= 1 /\ last_call.result = "rate_limit"
        /\ last_call.model = AnalyzeModels[model_no])
       => called[last_call.model] = max_retries

\* C11 witness: analyze_security has moved on from a candidate whose third
\* call of this file ended in a rate-limit error as well
C11_Witness ==
  /\ apc = "models" /\ model_no >= 1
  /\ last_call.result = "rate_limit"
  /\ last_call.model = AnalyzeModels[model_no]
  /\ called[AnalyzeModels[model_no]] = max_retries
  /\ barred = {}

\* C12: the sleep after a rate-limit error is the wait the provider suggests
\* plus the buffer of 2 when the error carries one, and otherwise the default
\* that starts at 5 and doubles with every retry of the candidate (5, 10, 20);
\* every new candidate starts again at 5.
C12_BackoffSleep ==
  [][ /\ (called' # called /\ last_call'.result = "rate_limit") =>
           last_sleep' = IF last_call'.wait > 0
                           THEN last_call'.wait + WaitBuffer
                           ELSE InitialRetryDelay * 2^attempt
      /\ (apc' = "call" /\ model_no' # model_no) =>
           retry_delay' = InitialRetryDelay ]_vars

\* C13: once an attempt has ended successfully stream_response returns: no
\* worker is started for a later candidate, the loop position stays, and the
\* only record still sent to the caller is generate's done marker.
C13_ReturnOnSuccess ==
  [][ (\E a \in Attempts : outcome[a] = "DONE") =>
        /\ calls' = calls
        /\ idx' = idx
        /\ \A b \in Attempts : wpc[b] = "unstarted" => wpc'[b] = "unstarted"
        /\ out' = out \/ out' = Append(out, DoneRecord) ]_vars

\* C13 witness: the first candidate succeeded with text, the stream is closed
\* and the second candidate, which has a client, was never started
C13_Witness ==
  /\ opc = "closed"
  /\ Len(models_to_try) >= 2
  /\ outcome[1] = "DONE" /\ emitted[1] # << >>
  /\ ~Skipped(models_to_try[2]) /\ wpc[2] = "unstarted"
  /\ out[Len(out)] = DoneRecord

C15_NoticeAfterFailure ==
  /\ \A i \in DOMAIN out :
       out[i].src = "notice" => \E a \in Attempts : a < out[i].att /\ Abandoned(a)
  /\ \A b \in Attempts :
       (Started(b) /\ \E a \in Attempts : a < b /\ Abandoned(a)) =>
         \E i \in DOMAIN out : out[i].src = "notice" /\ out[i].att = b

\* C16: Scenario D: when all three candidates of a chat request have failed,
\* the caller's stream is exactly one error record followed by the done
\* marker, with no content record.
C16_ScenarioD ==
  (opc = "closed" /\ Len(models_to_try) = 3 /\ \A a \in Attempts : Abandoned(a))
    => out = << ErrorRecord, DoneRecord >>

\* the outbound stream of the request is complete
StreamClosed == opc = "closed" \/ dpc = "closed"

\* the request failed: no attempt of it ended without raising
RequestFailed == \A a \in Attempts : outcome[a] # "DONE"

C17_DocWitness ==
  /\ dpc = "closed" /\ RequestFailed
  /\ \E i \in DOMAIN out : out[i].src = "doc_fragment"
  /\ out[Len(out)] = DoneRecord

\* the content records that carry the fragments q of attempt a
RECURSIVE FragmentRecords(_)
FragmentRecords(q) ==
  IF q = << >> THEN << >>
  ELSE << ContentRecord("fragment", Head(q)[1], Head(q)[2]) >> \o FragmentRecords(Tail(q))

Entitled(m) ==
  m \in ModelIds /\ allowed_for(request.user_plan, request.is_authenticated, m)

\* C19: whatever the entitlement, a requested model it forbids is replaced:
\* the first candidate is then an allowed model and not the request, and no
\* candidate the orchestrator would call (registry entry and client present)
\* lies outside the entitlement.
C19_OnlyEntitledCalled ==
  opc = "selected" =>
    /\ ~Entitled(request.model_id) =>
         (models_to_try[1] # request.model_id /\ Entitled(models_to_try[1]))
    /\ \A i \in DOMAIN models_to_try :
         ~Skipped(models_to_try[i]) => Entitled(models_to_try[i])

\* C20: Scenario A: for an unauthenticated free-tier caller the first
\* candidate is the Groq default model mixtral-8x7b whatever id was
\* requested, and every candidate is of the restricted provider set.
C20_ScenarioA ==
  (opc = "selected" /\ request.user_plan = "free" /\ ~request.is_authenticated) =>
    /\ models_to_try[1] = "mixtral-8x7b"
    /\ \A i \in DOMAIN models_to_try :
         /\ models_to_try[i] \in ModelIds
         /\ models[models_to_try[i]].provider \in free_tier_unauthenticated_providers

\* C20 witness: an unauthenticated free-tier request for gpt-4o, with both
\* clients configured, got mixtral-8x7b as its only candidate
C20_Witness ==
  /\ opc = "selected"
  /\ request = [model_id |-> "gpt-4o", user_plan |-> "free", is_authenticated |-> FALSE]
  /\ keys = [groq |-> TRUE, google |-> TRUE]
  /\ models_to_try = << "mixtral-8x7b" >>

\* the model chat_stream hands to stream_response: the request's own id,
\* except for an unauthenticated free-tier caller, who gets mixtral-8x7b
PrimaryOf(r) ==
  IF r.user_plan = "free" /\ ~r.is_authenticated THEN "mixtral-8x7b" ELSE r.model_id

\* C21: the candidate list is not empty, names no model twice and starts
\* with the requested (or substituted) model; every later entry is allowed
\* for the entitlement, has a provider client, and is not the primary.
C21_CandidateList ==
  opc = "selected" =>
    /\ models_to_try # << >>
    /\ \A i, j \in DOMAIN models_to_try : i # j => models_to_try[i] # models_to_try[j]
    /\ models_to_try[1] = PrimaryOf(request)
    /\ \A i \in DOMAIN models_to_try :
         i > 1 => /\ Entitled(models_to_try[i])
                  /\ client_available(keys, models_to_try[i])
                  /\ models_to_try[i] # models_to_try[1]

\* C21 witness: a standard-plan request for llama-3.3-70b with both clients:
\* the primary, itself an available model, then the two other ones
C21_Witness ==
  /\ opc = "selected"
  /\ request = [model_id |-> "llama-3.3-70b", user_plan |-> "standard",
                is_authenticated |-> TRUE]
  /\ models_to_try = << "llama-3.3-70b", "mixtral-8x7b", "gemini-pro" >>

\* the sort key of a fallback: provider priority (Groq 1, Google 2, others
\* 99), then capability tier (basic 1 .. enterprise 4)
Rank(m) ==
  << (CASE m \in ModelIds /\ models[m].client = "groq" -> 1
        [] m \in ModelIds /\ models[m].client = "google" -> 2
        [] OTHER -> 99),
     (CASE m \in ModelIds /\ models[m].category = "basic" -> 1
        [] m \in ModelIds /\ models[m].category = "standard" -> 2
        [] m \in ModelIds /\ models[m].category = "advanced" -> 3
        [] m \in ModelIds /\ models[m].category = "enterprise" -> 4
        [] OTHER -> 5) >>

LexLeq(x, y) == x[1] < y[1] \/ (x[1] = y[1] /\ x[2] <= y[2])

\* C22: the fallbacks after the primary are in the order of provider
\* priority, then capability tier: any two adjacent ones are in
\* lexicographic order of (priority, tier).
C22_FallbackOrder ==
  opc = "selected" =>
    \A i \in DOMAIN models_to_try :
      (i > 1 /\ i < Len(models_to_try)) =>
        LexLeq(Rank(models_to_try[i]), Rank(models_to_try[i + 1]))

\* C22 witness: three fallbacks of two providers and two tiers after a
\* primary that has no client
C22_Witness ==
  /\ opc = "selected"
  /\ request.model_id = "gpt-4o"
  /\ models_to_try = << "gpt-4o", "mixtral-8x7b", "llama-3.3-70b", "gemini-pro" >>

\* no model of the list is usable: each lacks a registry entry or a client
NoCandidateUsable == \A a \in Attempts : Skipped(models_to_try[a])

\* C23: when no model is usable for the caller, that is signalled at once:
\* the candidate list is not walked through as if it held candidates, and
\* the caller is not told that "all available models failed".
C23_NoCandidateSignalled ==
  (opc # "idle" /\ NoCandidateUsable) =>
    /\ idx = 0
    /\ \A i \in DOMAIN out : out[i].src # "errmsg"

\* a fixed capacity of the fragment channel, below the number of fragments
\* the providers of a request deliver
ChannelCapacity == MaxChunks - 1

\* C24: the fragment channel of an attempt is bounded: it never holds more
\* fragments than its fixed capacity, whether the monitor still reads from
\* it or not (the worker would block instead of enqueuing).
C24_BoundedChannel ==
  \A a \in Attempts : Len(result_queue[Channel(a)]) <= ChannelCapacity

\* the monitor of attempt a has taken the worker's error off the error queue
ErrorRead(a) == outcome[a] = "FAILED"

\* C25: a worker that has terminated has set the completion signal; the
\* error signal was used exactly when the provider call raised, with that
\* error and only once; and the error is put before completion is set, so
\* whenever completion is set after a provider error the error is on the
\* error queue or the monitor has read it.
C25_WorkerSignals ==
  \A a \in Attempts :
    /\ wpc[a] \in {"exiting", "dead"} => completion_event[a]
    /\ completion_event[a] => wpc[a] \in {"exiting", "dead"}
    /\ raised[a] = NoError => (error_queue[a] = << >> /\ ~ErrorRead(a))
    /\ raised[a] # NoError =>
         \/ error_queue[a] = << raised[a] >> /\ ~ErrorRead(a)
         \/ error_queue[a] = << >> /\ ErrorRead(a)

\* C25 witness: the worker raised and terminated; completion is set and the
\* error still waits on the error queue
C25_Witness ==
  \E a \in Attempts :
    /\ wpc[a] = "dead" /\ completion_event[a]
    /\ raised[a] # NoError /\ error_queue[a] = << raised[a] >>
    /\ Monitoring /\ idx = a

\* C26: cancellation is cooperative: once the stall signal of an attempt is
\* set, its worker enqueues at most the one fragment it holds past its stall
\* check; the next chunk the provider delivers makes it stop at the check,
\* with nothing enqueued and the error signal untouched, and from there it
\* sets the completion signal.
C26_CooperativeCancel ==
  [][ \A a \in Attempts : stop_event[a] =>
        /\ wpc[a] # "put" => (enqueued'[a] = enqueued[a] /\ wpc'[a] # "put")
        /\ wpc[a] = "put" =>
             (enqueued'[a] \in {enqueued[a], Append(enqueued[a], chunk[a].content)})
        /\ (wpc[a] = "iter" /\ stream'[a] # stream[a]) =>
             /\ wpc'[a] = "complete"
             /\ error_queue'[a] = error_queue[a] /\ raised'[a] = raised[a]
        /\ (wpc[a] = "complete" /\ wpc'[a] # wpc[a]) =>
             /\ completion_event'[a]
             /\ error_queue'[a] = error_queue[a] ]_vars

\* C26 witness: an attempt ended in Timeout, and its worker stopped at the
\* check afterwards: the provider delivered a text that was never enqueued,
\* and the worker set completion without an error
C26_Witness ==
  \E a \in Attempts :
    /\ outcome[a] = "TIMED_OUT" /\ stop_event[a]
    /\ completion_event[a] /\ raised[a] = NoError /\ error_queue[a] = << >>
    /\ Len(TextsOf(stream[a])) > Len(enqueued[a])

\* C27: Timeout is raised only while the attempt waits for its first
\* fragment: when the monitor raises it, nothing was emitted in the attempt,
\* the deadline has elapsed and the stall signal is set; an attempt that
\* emitted a fragment never is TIMED_OUT.
C27_TimeoutOnlyBeforeFirst ==
  /\ (Monitoring /\ mpc = "raise_timeout") =>
       /\ emitted[idx] = << >> /\ ~has_received_data
       /\ elapsed > TimeoutTicks
       /\ stop_event[idx]
  /\ \A a \in Attempts :
       outcome[a] = "TIMED_OUT" => (emitted[a] = << >> /\ stop_event[a])
  /\ \A a \in Attempts :
       emitted[a] # << >> => outcome[a] # "TIMED_OUT"

\* C27 witness: the deadline has elapsed in an attempt that has emitted a
\* fragment, the monitor is past its deadline check and goes on
C27_Witness ==
  /\ Monitoring /\ mpc = "errors"
  /\ emitted[idx] # << >> /\ has_received_data
  /\ elapsed > TimeoutTicks

\* the worker of attempt a completed normally and the monitor has consumed
\* every fragment it enqueued
NormalDrained(a) ==
  /\ completion_event[a] /\ raised[a] = NoError
  /\ result_queue[Channel(a)] = << >> /\ emitted[a] = enqueued[a]

\* C28: once the worker has completed normally and the monitor has consumed
\* every enqueued fragment, the monitor's checks lead to DONE: from the top
\* of its loop it passes the checks in order and ends the attempt DONE; it
\* raises nothing and does not go back to wait on the channel. A monitor
\* found blocked in its read finishes that one poll first.
C28_DoneAfterCompletion ==
  [][ (Monitoring /\ NormalDrained(idx)) =>
        \/ mpc' = mpc
        \/ mpc' = "idle" /\ outcome'[idx] = "DONE"
        \/ mpc = "top" /\ mpc' = "errors"
        \/ mpc = "errors" /\ mpc' = "completed"
        \/ mpc = "empty" /\ mpc' = "top"
        \/ mpc = "get" /\ mpc' = "empty"
        \/ mpc = "yielded" /\ mpc' = "top" ]_vars

\* the attempts of the request that ran, and the failure of attempt a as the
\* handlers of stream_response record it
Ran == { a \in Attempts : Started(a) }
LastRan == CHOOSE a \in Ran : \A b \in Ran : b <= a
FailureOf(a) ==
  IF outcome[a] = "TIMED_OUT"
    THEN [kind |-> "Timeout", model |-> models_to_try[a]]
    ELSE raised[a]
\* the texts of the terminal error messages in the caller's stream
Reported == { out[i].text : i \in { j \in DOMAIN out : out[j].src = "errmsg" } }

\* C29 as stated: the terminal error message reports the failure of the last
\* candidate that ran, it says unknown error only if no attempt ran at all,
\* and stream_response then raises: the error record follows the message.
C29_LastErrorReported ==
  /\ \A t \in Reported :
       /\ Ran # {} => (Abandoned(LastRan) /\ t = FailureOf(LastRan))
       /\ t = UnknownError => Ran = {}
  /\ Reported # {} =>
       /\ opc \in {"raise", "gen_done", "closed"}
       /\ opc \in {"gen_done", "closed"} => Explained(out)

\* C29 amended: the terminal error message reports the failure of the last
\* candidate that ran; it says unknown error only if no attempt ran at all
\* or that failure's exception has an empty message; and stream_response
\* then raises: the error record follows the message.
C29_LastErrorOrNoMessage ==
  /\ \A t \in Reported :
       /\ Ran # {} => (Abandoned(LastRan) /\ t = error_msg(FailureOf(LastRan)))
       /\ t = UnknownError =>
            (Ran = {} \/ FailureOf(LastRan).kind = "NoMessage")
       /\ Ran = {} => t = UnknownError
  /\ Reported # {} =>
       /\ opc \in {"raise", "gen_done", "closed"}
       /\ opc \in {"gen_done", "closed"} => Explained(out)

\* C29 witness: the first candidate's provider raised, the second timed
\* out, and the message to the caller names the Timeout of the second
C29_Witness ==
  /\ Len(models_to_try) >= 2
  /\ outcome[1] = "FAILED" /\ raised[1].kind = "TransientError"
  /\ outcome[2] = "TIMED_OUT"
  /\ Reported = { [kind |-> "Timeout", model |-> models_to_try[2]] }
  /\ Explained(out)

\* the controlling flow is in the loop over models_to_try and the next
\* candidate has a registry entry and a client
NextUsable ==
  opc = "loop" /\ idx < Len(models_to_try) /\ ~Skipped(models_to_try[idx + 1])

\* C30: the attempts of a request are strictly sequential: a candidate's
\* worker is started only when the monitor of every attempt before it has
\* ended its attempt as abandoned, and at most one attempt has a running
\* monitor; and the controlling flow does not wait for a worker: once it is
\* in the loop with a usable next candidate it starts that candidate's
\* attempt, whatever the workers of the abandoned attempts do, also when their
\* provider calls never return.
C30_SequentialNoWait ==
  /\ [](\A a, b \in Attempts :
          (a < b /\ Started(b)) => (~Started(a) \/ Abandoned(a)))
  /\ [](Cardinality({ a \in Attempts : outcome[a] = "running" }) <= 1)
  /\ [](\A a \in Attempts :
          outcome[a] = "running" <=> (Monitoring /\ idx = a))
  /\ (NextUsable ~> Monitoring)

\* C30 witness: the second candidate's attempt is running while the worker
\* of the abandoned first attempt is still inside its provider call
C30_Witness ==
  /\ Len(models_to_try) >= 2
  /\ Abandoned(1) /\ wpc[1] = "iter"
  /\ Started(2) /\ outcome[2] = "running" /\ Monitoring

\* the ways the monitor ends an attempt
Ended == Terminal \cup {"CLOSED"}

\* C31: an attempt terminates once, with one cause: its outcome goes from
\* running to one of DONE, TIMED_OUT and FAILED and then never changes, an
\* attempt is never started again, and once the outcome is terminal no
\* fragment is emitted for the attempt: neither the monitor's record of it
\* nor the attempt's share of the caller's stream grows.  (An attempt whose
\* stream the caller closed is over as well, and equally final; none of the
\* three causes is recorded for it.)
C31_TerminatesOnce ==
  [][ \A a \in Attempts :
        /\ outcome[a] \in Ended =>
             /\ outcome'[a] = outcome[a]
             /\ emitted'[a] = emitted[a]
             /\ FragmentsOf(out', a) = FragmentsOf(out, a)
        /\ outcome'[a] # outcome[a] =>
             \/ outcome[a] = "none" /\ outcome'[a] = "running"
             \/ outcome[a] = "running" /\ outcome'[a] \in Terminal
             \/ outcome[a] = "running" /\ outcome'[a] = "CLOSED" /\ opc' = "abandoned"
        /\ (outcome[a] = "running" /\ outcome'[a] \in Ended) =>
             (emitted'[a] = emitted[a] /\ FragmentsIn(out') = FragmentsIn(out)) ]_vars

\* C31 witness: an attempt ended in Timeout with nothing emitted, and a
\* fragment its worker enqueued afterwards stays in its channel, unread,
\* after the request has ended
C31_Witness ==
  \E a \in Attempts :
    /\ outcome[a] = "TIMED_OUT" /\ emitted[a] = << >>
    /\ result_queue[Channel(a)] # << >>
    /\ opc = "closed"

\* C32: the quiet period is strictly shorter than the deadline of every
\* accepted chat request, whether the request carries a timeout of its own
\* or gets the default.
C32_QuietBelowDeadline ==
  opc = "selected" => QuietSeconds < timeout

\* the candidate has a registry entry and a configured provider client
HasEntryAndClient(m) ==
  get_model_config(m) # NoConfig /\ get_client(keys, m)

\* C33: a worker is started only for a candidate with a registry entry and a
\* configured client; when the loop of stream_response passes a candidate
\* that lacks either, no worker is started, nothing is emitted, the recorded
\* last error stays as it is and the loop goes on with the next candidate.
C33_SkipWithoutWorker ==
  /\ [](\A a \in Attempts : Started(a) => HasEntryAndClient(models_to_try[a]))
  /\ [][ (opc = "loop" /\ idx' = idx + 1) =>
            IF HasEntryAndClient(models_to_try[idx + 1])
              THEN wpc'[idx + 1] = "iter" /\ opc' = "streaming"
              ELSE /\ wpc' = wpc /\ calls' = calls
                   /\ out' = out /\ last_error' = last_error
                   /\ opc' = "loop" ]_vars

\* C33 witness: the primary candidate has no registry entry and was passed
\* without a worker; the next candidate's attempt is running and the caller
\* has received nothing but its fragments
C33_Witness ==
  /\ Len(models_to_try) >= 2
  /\ get_model_config(models_to_try[1]) = NoConfig /\ wpc[1] = "unstarted"
  /\ idx = 2 /\ Monitoring /\ emitted[2] # << >>
  /\ last_error = NoError

\* the monitor of attempt a reads its channel no more
StoppedReading(a) == Started(a) /\ outcome[a] \in Terminal \cup {"CLOSED"}

\* C34: whenever the monitor has stopped reading an attempt's channel and
\* the attempt's worker has not set the completion signal, the attempt's
\* stall signal is set; also when the monitor stopped because the caller
\* closed the stream while it was suspended after a fragment.
C34_StallSetWhenLeft ==
  \A a \in Attempts :
    (StoppedReading(a) /\ ~completion_event[a]) => stop_event[a]

\* the worker of the current attempt completed normally without a fragment
\* before the deadline: completion is set while the monitor's clock is below
\* the deadline, or the monitor has since finished the poll it was in and
\* stands at the deadline in one of its checks
EarlyEmpty ==
  /\ Monitoring
  /\ completion_event[idx] /\ raised[idx] = NoError /\ enqueued[idx] = << >>
  /\ \/ elapsed < TimeoutTicks
     \/ elapsed = TimeoutTicks /\ mpc \in {"empty", "top", "errors", "completed"}

\* C35: a provider that completes normally before the deadline without a
\* fragment makes the attempt end DONE with nothing emitted: from then on
\* the monitor raises no Timeout and ends the attempt DONE; no later
\* candidate is started, and when no attempt of the request ran before it
\* the caller's stream is the done marker alone.
C35_EmptyIsDone ==
  /\ [][ EarlyEmpty =>
            \/ EarlyEmpty' /\ mpc' # "raise_timeout"
            \/ /\ outcome'[idx] = "DONE" /\ emitted'[idx] = << >>
               /\ opc' = "gen_done" /\ idx' = idx /\ out' = out ]_vars
  /\ []((opc = "closed" /\ idx > 0 /\ outcome[idx] = "DONE" /\ emitted[idx] = << >>) =>
          /\ \A b \in Attempts : b > idx => wpc[b] = "unstarted"
          /\ Len(calls) = 1 => out = << DoneRecord >>)

\* the positions of the documentation chat's content records in the
\* caller's stream
DocContent == { i \in DOMAIN out : out[i].src = "doc_fragment" }

\* C36: the content records of a documentation chat stream come from at most
\* one model: after a model's content has been sent, no content of another
\* model of the list follows in the same stream.
C36_DocOneModel ==
  \A i, j \in DocContent : out[i].att = out[j].att

\* C37: analyze_security tries the candidate models of a file in the fixed
\* order and stops at the first response that parses: a model is called only
\* when every model before it was skipped or called for this file and none
\* after it was; the result grows only by the step of a call that parses,
\* for a file not yet analyzed, by records of that file, and after it no
\* model is called for the file any more; a file whose models all fail adds
\* nothing, and the request still ends with its normal result.
C37_FirstParsedWins ==
  /\ [](apc = "call" =>
          /\ ~file_analyzed
          /\ ~Skipped(AnalyzeModels[model_no])
          /\ \A j \in DOMAIN AnalyzeModels :
               /\ j < model_no =>
                    (Skipped(AnalyzeModels[j]) \/ called[AnalyzeModels[j]] >= 1)
               /\ j > model_no => called[AnalyzeModels[j]] = 0)
  /\ [][ /\ vulnerabilities' # vulnerabilities =>
             /\ apc = "call" /\ last_call'.result = "ok"
             /\ last_call'.model = AnalyzeModels[model_no]
             /\ file_analyzed' /\ apc' = "files"
             /\ IsPrefix(vulnerabilities, vulnerabilities')
             /\ \A i \in DOMAIN vulnerabilities' :
                  i > Len(vulnerabilities) =>
                    vulnerabilities'[i].file = files[file_no].name
         /\ (file_analyzed /\ file_no' = file_no) =>
             (called' = called /\ vulnerabilities' = vulnerabilities)
         /\ (apc = "models" /\ apc' = "files" /\ ~file_analyzed) =>
             (vulnerabilities' = vulnerabilities /\ model_no = Len(AnalyzeModels))
         /\ apc = "done" => apc' = "done" ]_vars

\* C37 witness: the request has ended; the first file was tried and left
\* nothing in the result, and the second file was analyzed by the second
\* model after the first model had used up its calls on it
C37_Witness ==
  /\ apc = "done" /\ Len(files) = 2
  /\ files[1].content # "" /\ files[1].name # files[2].name
  /\ vulnerabilities # << >>
  /\ \A i \in DOMAIN vulnerabilities : vulnerabilities[i].file = files[2].name
  /\ last_call.result = "ok" /\ last_call.model = AnalyzeModels[2]
  /\ called[AnalyzeModels[1]] = max_retries

\* C38: the ids of the vulnerabilities one analyze_security call returns are
\* pairwise distinct, also for two vulnerabilities of the same file on the
\* same line.
C38_DistinctIds ==
  \A i, j \in DOMAIN vulnerabilities :
    i # j => vulnerabilities[i].id # vulnerabilities[j].id

====
